---- MODULE Spec2Model ----
(***************************************************************************)
(* A model of openlist_downloader.OpenListDownloader: the recursive remote *)
(* listing (list_dir), the manifest (save_filelist / load_filelist), the   *)
(* per-file download (download_file / _download_via_stream), the per-file  *)
(* upload (upload_file / create_directory) and the orchestrator (run) with *)
(* its ThreadPoolExecutor.                                                 *)
(*                                                                         *)
(* Strings are sequences of one-character strings, so that rstrip, the     *)
(* path concatenation and the JSON escaping are computed, not assumed.     *)
(***************************************************************************)
EXTENDS Integers, Sequences, FiniteSets, TLC

VARIABLES
    remote,         \* the remote file system: the items of "/", a tree of nodes
    remote_path,    \* config["remote_path"]
    page_size,      \* config["page_size"]
    skip_existing,  \* config["skip_existing"]
    upload_config,  \* config["upload"]: local_path (the rel_paths of the files
                    \* under it) and remote_upload_path
    workers,        \* run(workers=...)
    list_only,      \* run(list_only=...)
    download_only,  \* run(download_only=...)
    upload_only,    \* run(upload_only=...)
    pc,             \* position of the control thread inside run()
    result,         \* how the last run() ended: "none", "returned", "raised"
    error,          \* the exception the last run() raised, or "none"
    oracle,         \* the faults the server injects into this run's list requests
    list_reqs,      \* the list requests of this run, in order: <<[path, page]>>
    all_files,      \* run()'s local all_files
    local_files,    \* run()'s local local_files (upload mode)
    filelist,       \* the file filelist.json: whether it exists, and its text
    pool,           \* the ThreadPoolExecutor of this run: "none", "open", "closed"
    tasks,          \* run()'s futures, in submission order, each with its task's state
    completed,      \* run()'s local completed
    progress,       \* the [PROGRESS] lines this run has printed: <<[completed, total]>>
    localfs,        \* the local files under local_save_dir: path -> [size, data]
    net,            \* the kinds of fault the network and the disk produce in this behaviour
    reruns,         \* whether run() is called again after it has ended
    prev_ok,        \* history: the last finished download run transferred every entry
    prev_files,     \* history: the entry sequence of that run
    saved_files     \* history: the entry sequence the last save_filelist was given

vars == <<remote, remote_path, page_size, skip_existing, upload_config, workers,
          list_only, download_only, upload_only, pc, result, error, oracle, list_reqs,
          all_files, local_files, filelist, pool, tasks, completed, progress,
          localfs, net, reruns, prev_ok, prev_files, saved_files>>

----------------------------------------------------------------------------
(* Bounds of the model *)

MaxDepth == 1
MaxWidth == 2
MaxPageSize == 2
MaxWorkers == 2

----------------------------------------------------------------------------
(* Strings *)

Slash == "/"

\* str.rstrip('/')
RECURSIVE RStripSlash(_)
RStripSlash(s) ==
    IF s # <<>> /\ s[Len(s)] = Slash
    THEN RStripSlash(SubSeq(s, 1, Len(s) - 1))
    ELSE s

\* The names between the slashes of a path, empty segments dropped: how the
\* server resolves the "path" field of a request.
RECURSIVE SplitPath(_, _, _)
SplitPath(s, cur, acc) ==
    IF s = <<>>
    THEN IF cur = <<>> THEN acc ELSE Append(acc, cur)
    ELSE IF Head(s) = Slash
         THEN SplitPath(Tail(s), <<>>, IF cur = <<>> THEN acc ELSE Append(acc, cur))
         ELSE SplitPath(Tail(s), Append(cur, Head(s)), acc)

----------------------------------------------------------------------------
(* The remote tree *)

File(n, sz) == [name |-> n, is_dir |-> FALSE, size |-> sz, children |-> <<>>]
Dir(n, ch)  == [name |-> n, is_dir |-> TRUE,  size |-> 0,  children |-> ch]

Names == {<<"a">>, <<"b">>}
SizeOf(n) == IF n = <<"a">> THEN 1 ELSE 2

\* Sequences of at most MaxWidth nodes of S with pairwise different names.
ItemSeqs(S) ==
    UNION {{q \in [1..k -> S] : \A i, j \in 1..k : i # j => q[i].name # q[j].name}
           : k \in 0..MaxWidth}

RECURSIVE TreesOfDepth(_)
TreesOfDepth(d) ==
    IF d = 0
    THEN ItemSeqs({File(n, SizeOf(n)) : n \in Names})
    ELSE ItemSeqs({File(n, SizeOf(n)) : n \in Names}
                  \cup {Dir(n, ch) : n \in Names, ch \in TreesOfDepth(d - 1)})

NoNode == [name |-> <<>>, is_dir |-> FALSE, size |-> 0, children |-> <<>>]

\* The items of the directory a list of names leads to, if there is one.
RECURSIVE Resolve(_, _)
Resolve(items, names) ==
    IF names = <<>> THEN [ok |-> TRUE, items |-> items]
    ELSE LET hit == {i \in 1..Len(items) :
                        items[i].name = Head(names) /\ items[i].is_dir}
         IN IF hit = {} THEN [ok |-> FALSE, items |-> <<>>]
            ELSE Resolve(items[CHOOSE i \in hit : TRUE].children, Tail(names))

\* The file a list of names leads to, if there is one.
RECURSIVE ResolveFile(_, _)
ResolveFile(items, names) ==
    IF names = <<>> THEN [ok |-> FALSE, node |-> NoNode]
    ELSE LET hit == {i \in 1..Len(items) : items[i].name = Head(names)}
         IN IF hit = {} THEN [ok |-> FALSE, node |-> NoNode]
            ELSE LET n == items[CHOOSE i \in hit : TRUE]
                 IN IF Len(names) = 1
                    THEN [ok |-> ~n.is_dir, node |-> IF n.is_dir THEN NoNode ELSE n]
                    ELSE IF n.is_dir THEN ResolveFile(n.children, Tail(names))
                         ELSE [ok |-> FALSE, node |-> NoNode]

Min(a, b) == IF a < b THEN a ELSE b

----------------------------------------------------------------------------
(* POST /api/fs/list as the server answers it *)

ListFaultKinds == {"timeout", "exception", "http", "nonjson", "apperr", "nodata"}

\* The answer to {path, page, per_page}: a fault the oracle injects, or the
\* page-th slice of per_page items of the directory.
ListResponse(orc, path, page) ==
    LET faults == {f \in orc : f.path = path /\ f.page = page}
        dir    == Resolve(remote, SplitPath(path, <<>>, <<>>))
        items  == dir.items
    IN IF faults # {} THEN [kind |-> (CHOOSE f \in faults : TRUE).kind, content |-> <<>>]
       ELSE IF ~dir.ok THEN [kind |-> "apperr", content |-> <<>>]
       ELSE [kind |-> "ok",
             content |-> [i \in 1..(Min(page * page_size, Len(items))
                                     - Min((page - 1) * page_size, Len(items))) |->
                            LET n == items[(page - 1) * page_size + i]
                            IN [name |-> n.name, is_dir |-> n.is_dir, size |-> n.size]]]

----------------------------------------------------------------------------
(* list_dir *)

ListResult(files, reqs, raised) == [files |-> files, reqs |-> reqs, raised |-> raised]

\* full_path = f"{path.rstrip('/')}/{item['name']}"
FullPath(path, name) == RStripSlash(path) \o <<Slash>> \o name

\* A pagination that also stops after a full page.
LastPageAtFull(current_count) == current_count <= page_size

\* A pagination that goes on until a page is empty.
LastPageNever(current_count) == FALSE

\* if current_count < self.page_size: break
LastPage(current_count) == current_count < page_size

RECURSIVE ListPages(_, _, _, _, _)
RECURSIVE ListItems(_, _, _, _, _, _)

\* The while loop of list_dir from page `page` on, with `files` accumulated so
\* far and `reqs` the requests issued so far (by any level of the recursion).
ListPages(orc, path, page, files, reqs) ==
    LET resp  == ListResponse(orc, path, page)
        reqs1 == Append(reqs, [path |-> path, page |-> page])
    IN IF resp.kind \in {"timeout", "exception", "http", "nonjson", "apperr"}
       THEN ListResult(files, reqs1, FALSE)
       ELSE IF resp.kind = "nodata"
       THEN ListResult(files, reqs1, TRUE)
       ELSE IF resp.content = <<>>
       THEN ListResult(files, reqs1, FALSE)
       ELSE LET r == ListItems(orc, path, resp.content, 1, files, reqs1)
            IN IF r.raised \/ LastPage(Len(resp.content))
               THEN r
               ELSE ListPages(orc, path, page + 1, r.files, r.reqs)

\* A for loop that puts what a subdirectory holds in front of what it has.
ListItemsPrepend(orc, path, content, i, files, reqs) ==
    IF i > Len(content) THEN ListResult(files, reqs, FALSE)
    ELSE LET item == content[i]
             full_path == FullPath(path, item.name)
         IN IF item.is_dir
            THEN LET sub == ListPages(orc, full_path, 1, <<>>, reqs)
                 IN IF sub.raised
                    THEN ListResult(files, sub.reqs, TRUE)
                    ELSE ListItems(orc, path, content, i + 1, sub.files \o files, sub.reqs)
            ELSE ListItems(orc, path, content, i + 1,
                           Append(files, [name |-> item.name, path |-> full_path,
                                          size |-> item.size]),
                           reqs)

\* The for loop over one page's content, from item i on.
ListItems(orc, path, content, i, files, reqs) ==
    IF i > Len(content) THEN ListResult(files, reqs, FALSE)
    ELSE LET item == content[i]
             full_path == FullPath(path, item.name)
         IN IF item.is_dir
            THEN LET sub == ListPages(orc, full_path, 1, <<>>, reqs)
                 IN IF sub.raised
                    THEN ListResult(files, sub.reqs, TRUE)
                    ELSE ListItems(orc, path, content, i + 1, files \o sub.files, sub.reqs)
            ELSE ListItems(orc, path, content, i + 1,
                           Append(files, [name |-> item.name, path |-> full_path,
                                          size |-> item.size]),
                           reqs)

\* list_dir(path) against a server that injects the faults orc.
list_dir(orc, path) == ListPages(orc, path, 1, <<>>, <<>>)

----------------------------------------------------------------------------
(* filelist.json: json.dump(filelist, f, ensure_ascii=False, indent=2) and   *)
(* json.load(f). What is modelled is the text of each value: a string is     *)
(* written between quotes with its quotes and backslashes escaped, a size as *)
(* its decimal digits; the brackets and the indentation are left out.        *)

Quote == "\""
Backslash == "\\"

\* An escaping that leaves backslashes as they are.
RECURSIVE EscapeQuotesOnly(_)
EscapeQuotesOnly(s) ==
    IF s = <<>> THEN <<>>
    ELSE (IF Head(s) = Quote THEN <<Backslash, Head(s)>> ELSE <<Head(s)>>)
         \o EscapeQuotesOnly(Tail(s))

RECURSIVE EscapeJson(_)
EscapeJson(s) ==
    IF s = <<>> THEN <<>>
    ELSE (IF Head(s) \in {Quote, Backslash} THEN <<Backslash, Head(s)>> ELSE <<Head(s)>>)
         \o EscapeJson(Tail(s))

\* The string a JSON parser reads from the character after the opening quote:
\* up to the first quote that no backslash escapes.
RECURSIVE UnescapeJson(_)
UnescapeJson(t) ==
    IF t = <<>> \/ Head(t) = Quote THEN <<>>
    ELSE IF Head(t) = Backslash /\ Len(t) >= 2
         THEN <<t[2]>> \o UnescapeJson(Tail(Tail(t)))
         ELSE <<Head(t)>> \o UnescapeJson(Tail(t))

EncodeString(s) == <<Quote>> \o EscapeJson(s) \o <<Quote>>
DecodeString(t) == UnescapeJson(Tail(t))

DigitChars == <<"0", "1", "2", "3", "4", "5", "6", "7", "8", "9">>

RECURSIVE EncodeInt(_)
EncodeInt(n) ==
    IF n < 10 THEN <<DigitChars[n + 1]>>
    ELSE Append(EncodeInt(n \div 10), DigitChars[(n % 10) + 1])

RECURSIVE DecodeInt(_)
DecodeInt(t) ==
    IF t = <<>> THEN 0
    ELSE 10 * DecodeInt(SubSeq(t, 1, Len(t) - 1))
         + ((CHOOSE d \in 1..10 : DigitChars[d] = t[Len(t)]) - 1)

\* json.dump of one entry / json.load of one entry
EncodeEntry(e) ==
    [name |-> EncodeString(e.name), path |-> EncodeString(e.path), size |-> EncodeInt(e.size)]
DecodeEntry(r) ==
    [name |-> DecodeString(r.name), path |-> DecodeString(r.path), size |-> DecodeInt(r.size)]

Absent == [exists |-> FALSE, text |-> <<>>]

\* save_filelist(filelist): the file as it is after the call
save_filelist(files) ==
    [exists |-> TRUE, text |-> [i \in 1..Len(files) |-> EncodeEntry(files[i])]]

\* load_filelist(): None when the file does not exist
load_filelist(file) ==
    [none |-> ~file.exists,
     files |-> IF file.exists
               THEN [i \in 1..Len(file.text) |-> DecodeEntry(file.text[i])]
               ELSE <<>>]

----------------------------------------------------------------------------
(* Local paths *)

\* config["local_save_dir"]
local_save_dir == <<"d">>

RECURSIVE JoinPath(_)
JoinPath(names) ==
    IF names = <<>> THEN <<>>
    ELSE IF Len(names) = 1 THEN Head(names)
    ELSE Head(names) \o <<Slash>> \o JoinPath(Tail(names))

\* A local path that keeps only the last name of the remote one.
LocalFileFlat(path) ==
    LET names == SplitPath(path, <<>>, <<>>)
    IN local_save_dir \o <<Slash>> \o (IF names = <<>> THEN <<>> ELSE names[Len(names)])

\* os.path.join(self.local_save_dir, os.path.relpath(file_info["path"], start="/"))
LocalFile(path) == local_save_dir \o <<Slash>> \o JoinPath(SplitPath(path, <<>>, <<>>))

----------------------------------------------------------------------------
(* Local files and the remote files' bytes *)

NoFile == [exists |-> FALSE, size |-> 0, data |-> "none"]

FileAt(fs, p) == IF p \in DOMAIN fs THEN fs[p] ELSE NoFile

WriteFile(fs, p, sz, data) ==
    [q \in (DOMAIN fs) \cup {p} |->
        IF q = p THEN [exists |-> TRUE, size |-> sz, data |-> data] ELSE fs[q]]

RemoteFile(path) == ResolveFile(remote, SplitPath(path, <<>>, <<>>))

----------------------------------------------------------------------------
(* Tasks: one per future of run() *)

NewTask(kind, remote_file, local_file) ==
    [kind |-> kind, remote |-> remote_file, local |-> local_file,
     st |-> "queued", step |-> "begin", outcome |-> "none",
     pre |-> NoFile,
     stat_kind |-> "none", get_kind |-> "none", xfer_kind |-> "none",
     mkdir_kind |-> "none", put_kind |-> "none",
     n_stat |-> 0, n_get |-> 0, n_raw |-> 0, n_stream |-> 0, n_open |-> 0,
     n_mkdir |-> 0, n_put |-> 0, n_exec |-> 0]

Finish(t, outcome) == [t EXCEPT !.st = "done", !.step = "end", !.outcome = outcome]

Running == {i \in 1..Len(tasks) : tasks[i].st = "running"}

\* A pool that starts a thread for every task submitted.
WorkerAlways(running, max_workers) == TRUE

\* A pool that keeps one of its threads back.
WorkerSpare(running, max_workers) == running + 1 < max_workers

\* ThreadPoolExecutor(max_workers=workers): a queued task is taken when fewer
\* than max_workers tasks are executing.
WorkerFree(running, max_workers) == running < max_workers

\* The kinds of answer a call can get in this behaviour: its successes, and
\* the faults of the behaviour's universe.
Answers(success, faults) == success \cup (faults \cap net)

----------------------------------------------------------------------------
(* get_file_size *)

StatFaults == {"exc", "http", "nonjson", "apperr", "nodata"}

\* The value get_file_size returns: None, or data["data"].get("size", 0).
get_file_size(kind, path) ==
    IF kind = "ok" THEN [none |-> FALSE, size |-> RemoteFile(path).node.size]
    ELSE IF kind = "nosize" THEN [none |-> FALSE, size |-> 0]
    ELSE [none |-> TRUE, size |-> 0]

----------------------------------------------------------------------------
(* download_file *)

\* A skip check that asks for the remote size of the files that are missing.
AsksWhenMissing(skip, file) == skip /\ ~file.exists

\* if self.skip_existing and os.path.exists(local_path): ... if local_size > 0:
AsksRemoteSize(skip, file) == skip /\ file.exists /\ file.size > 0

\* A comparison that skips whenever the remote size is known.
SizeKnown(local_size, remote_size) == ~remote_size.none

\* A comparison that takes a size it could not learn for the local one.
SizeUnknownSkips(local_size, remote_size) ==
    remote_size.none \/ local_size = remote_size.size

\* if remote_size is not None and local_size == remote_size: return
SizesMatch(local_size, remote_size) == ~remote_size.none /\ local_size = remote_size.size

GetFaults == {"exc", "http", "nonjson", "apperr", "nodata", "noraw", "emptyraw"}

\* A download_file that gives up when the answer of /api/fs/get is unusable.
AfterGetNoFallback(kind) ==
    IF kind \in {"exc", "http", "nonjson", "apperr", "nodata"} THEN "failed"
    ELSE IF kind \in {"noraw", "emptyraw"} THEN "stream"
    ELSE "raw"

\* A download_file that turns to the stream endpoint when the request to
\* /api/fs/get raises.
AfterGetExcFallback(kind) ==
    IF kind \in {"exc", "http", "nonjson", "apperr", "noraw", "emptyraw"} THEN "stream"
    ELSE IF kind = "nodata" THEN "failed"
    ELSE "raw"

\* What download_file does with the answer of /api/fs/get: "stream" (the
\* fallback), "raw" (the raw_url fetch) or "failed" (the except clause).
AfterGet(kind) ==
    IF kind = "exc" THEN "failed"
    ELSE IF kind \in {"http", "nonjson", "apperr"} THEN "stream"
    ELSE IF kind = "nodata" THEN "failed"
    ELSE IF kind \in {"noraw", "emptyraw"} THEN "stream"
    ELSE "raw"

\* What the raw_url fetch and the stream request do with their answer:
\* "write" (the file is opened "wb" and the chunks are copied) or "failed".
AfterRaw(kind) == IF kind = "ok" THEN "write" ELSE "failed"
AfterStream(kind) == IF kind = "ok" THEN "write" ELSE "failed"

XferFaults == {"exc", "http", "openfail"}

----------------------------------------------------------------------------
(* upload_file and create_directory *)

\* os.path.join(remote_upload_path, rel_path).replace("\\", "/")
RemoteTarget(remote_upload_path, rel_path) ==
    IF remote_upload_path # <<>> /\ remote_upload_path[Len(remote_upload_path)] = Slash
    THEN remote_upload_path \o rel_path
    ELSE remote_upload_path \o <<Slash>> \o rel_path

\* dir_path = '/'.join(remote_path.split('/')[:-1])
RECURSIVE DirPath(_)
DirPath(path) ==
    IF path = <<>> THEN <<>>
    ELSE IF path[Len(path)] = Slash THEN SubSeq(path, 1, Len(path) - 1)
    ELSE DirPath(SubSeq(path, 1, Len(path) - 1))

MkdirFaults == {"exists", "401", "other", "nonjson", "exc"}

\* The value create_directory returns.
create_directory(kind) == kind \in {"ok", "exists"}

PutFaults == {"code_err", "http", "nonjson", "exc"}

\* The value upload_file returns once the PUT is answered.
PutSucceeds(kind) == kind = "ok"

----------------------------------------------------------------------------
(* The worker threads *)

ctl == <<remote, remote_path, page_size, skip_existing, upload_config, net, reruns,
         workers, list_only, download_only, upload_only, pc, result, error, oracle,
         list_reqs, all_files, local_files, filelist, pool, completed, progress,
         prev_ok, prev_files, saved_files>>

\* A worker thread takes the oldest queued task.
TaskStart(i) ==
    /\ pool = "open"
    /\ tasks[i].st = "queued"
    /\ \A j \in 1..(i - 1) : tasks[j].st # "queued"
    /\ WorkerFree(Cardinality(Running), workers)
    /\ tasks' = [tasks EXCEPT ![i] = [@ EXCEPT !.st = "running", !.n_exec = @ + 1]]
    /\ UNCHANGED <<ctl, localfs>>

AtStep(i, kind, step) ==
    /\ tasks[i].kind = kind
    /\ tasks[i].st = "running"
    /\ tasks[i].step = step

\* download_file up to its first request: os.makedirs, then the skip check's
\* os.path.exists and os.path.getsize.
Begin(i) ==
    /\ AtStep(i, "download", "begin")
    /\ \E k \in Answers({"ok"}, {"mkfail"}) :
         LET t == tasks[i]
             file == FileAt(localfs, t.local)
         IN tasks' = [tasks EXCEPT ![i] =
                IF k = "mkfail" THEN Finish(t, "raised")
                ELSE [t EXCEPT !.pre = file,
                               !.step = IF AsksRemoteSize(skip_existing, file)
                                        THEN "stat" ELSE "get"]]
    /\ UNCHANGED <<ctl, localfs>>

\* remote_size = self.get_file_size(remote_path), and the comparison
Stat(i) ==
    /\ AtStep(i, "download", "stat")
    /\ \E k \in Answers({"ok", "nosize"}, StatFaults) :
         /\ k = "ok" => RemoteFile(tasks[i].remote).ok
         /\ LET t == [tasks[i] EXCEPT !.stat_kind = k, !.n_stat = @ + 1]
            IN tasks' = [tasks EXCEPT ![i] =
                   IF SizesMatch(t.pre.size, get_file_size(k, t.remote))
                   THEN Finish(t, "skipped")
                   ELSE [t EXCEPT !.step = "get"]]
    /\ UNCHANGED <<ctl, localfs>>

\* resp = self.session.post(".../api/fs/get"), and what follows from the answer
Get(i) ==
    /\ AtStep(i, "download", "get")
    /\ \E k \in Answers({"url"}, GetFaults) :
         /\ k = "url" => RemoteFile(tasks[i].remote).ok
         /\ LET t == [tasks[i] EXCEPT !.get_kind = k, !.n_get = @ + 1]
                next == AfterGet(k)
            IN tasks' = [tasks EXCEPT ![i] =
                   IF next = "failed" THEN Finish(t, "failed")
                   ELSE [t EXCEPT !.step = next]]
    /\ UNCHANGED <<ctl, localfs>>

\* A request for the file's bytes is answered: on 200 the local file is opened
\* "wb", which creates or truncates it.
Fetch(i, step) ==
    /\ AtStep(i, "download", step)
    /\ \E k \in Answers({"ok"}, XferFaults) :
         /\ k = "ok" => RemoteFile(tasks[i].remote).ok
         /\ LET t == [tasks[i] EXCEPT !.xfer_kind = k,
                                      !.n_raw = IF step = "raw" THEN @ + 1 ELSE @,
                                      !.n_stream = IF step = "stream" THEN @ + 1 ELSE @]
            IN IF (IF step = "raw" THEN AfterRaw(k) ELSE AfterStream(k)) = "write"
               THEN /\ tasks' = [tasks EXCEPT ![i] =
                           [t EXCEPT !.step = "write", !.n_open = @ + 1]]
                    /\ localfs' = WriteFile(localfs, t.local, 0, "remote")
               ELSE /\ tasks' = [tasks EXCEPT ![i] = Finish(t, "failed")]
                    /\ UNCHANGED localfs
    /\ UNCHANGED ctl

\* with requests.get(raw_url, stream=True, ...) as r:
Raw(i) == Fetch(i, "raw")

\* resp = self.session.post(".../api/fs/stream", stream=True, ...)
Stream(i) == Fetch(i, "stream")

\* for chunk in r.iter_content(chunk_size=65536): f.write(chunk). The files of
\* the model are shorter than one chunk: the copy writes all of the file, or
\* breaks before the first chunk and leaves the file empty.
Write(i) ==
    /\ AtStep(i, "download", "write")
    /\ \E k \in Answers({"ok"}, {"writefail"}) :
         LET t == tasks[i]
         IN IF k = "ok"
            THEN /\ localfs' = WriteFile(localfs, t.local, RemoteFile(t.remote).node.size, "remote")
                 /\ tasks' = [tasks EXCEPT ![i] = Finish(t, "ok")]
            ELSE /\ tasks' = [tasks EXCEPT ![i] = Finish([t EXCEPT !.xfer_kind = k], "failed")]
                 /\ UNCHANGED localfs
    /\ UNCHANGED ctl

\* upload_file up to its first request: os.path.exists(local_path), dir_path
UploadBegin(i) ==
    /\ AtStep(i, "upload", "begin")
    /\ \E k \in Answers({"ok"}, {"vanished"}) :
         LET t == tasks[i]
         IN tasks' = [tasks EXCEPT ![i] =
                IF k = "vanished" THEN Finish(t, "false")
                ELSE [t EXCEPT !.step = IF DirPath(t.remote) # <<>> THEN "mkdir" ELSE "put"]]
    /\ UNCHANGED <<ctl, localfs>>

\* An upload_file that gives up unless create_directory made the directory.
MkdirStrict(i) ==
    /\ AtStep(i, "upload", "mkdir")
    /\ \E k \in Answers({"ok"}, MkdirFaults) :
         LET t == [tasks[i] EXCEPT !.mkdir_kind = k, !.n_mkdir = @ + 1]
         IN tasks' = [tasks EXCEPT ![i] =
                IF k = "ok" THEN [t EXCEPT !.step = "put"] ELSE Finish(t, "false")]
    /\ UNCHANGED <<ctl, localfs>>

\* self.create_directory(dir_path): its result is not looked at
Mkdir(i) ==
    /\ AtStep(i, "upload", "mkdir")
    /\ \E k \in Answers({"ok"}, MkdirFaults) :
         tasks' = [tasks EXCEPT ![i] =
                      [@ EXCEPT !.mkdir_kind = k, !.n_mkdir = @ + 1, !.step = "put"]]
    /\ UNCHANGED <<ctl, localfs>>

\* upload_resp = requests.put(upload_url, data=f, ...)
Put(i) ==
    /\ AtStep(i, "upload", "put")
    /\ \E k \in Answers({"ok"}, PutFaults) :
         LET t == [tasks[i] EXCEPT !.put_kind = k, !.n_put = @ + 1]
         IN tasks' = [tasks EXCEPT ![i] =
                Finish(t, IF PutSucceeds(k) THEN "true" ELSE "false")]
    /\ UNCHANGED <<ctl, localfs>>

----------------------------------------------------------------------------
(* run() *)

flags == <<workers, list_only, download_only, upload_only>>
cfg == <<remote, remote_path, page_size, skip_existing, upload_config, net, reruns>>
hist == <<prev_ok, prev_files, saved_files>>

Return(how) == pc' = "idle" /\ result' = how /\ error' = "none"

\* An exception leaves run(): main() prints it after [FATAL].
Raise(e) == pc' = "idle" /\ result' = "raised" /\ error' = e

\* run(list_only, download_only, upload_only, workers) is called.
StartRun(lo, do, uo, w) ==
    /\ pc = "idle"
    /\ result = "none" \/ reruns
    /\ pc' = "login"
    /\ list_only' = lo /\ download_only' = do /\ upload_only' = uo /\ workers' = w
    /\ result' = "none" /\ error' = "none"
    /\ oracle' = {} /\ list_reqs' = <<>>
    /\ all_files' = <<>> /\ local_files' = <<>>
    /\ pool' = "none" /\ tasks' = <<>> /\ completed' = 0 /\ progress' = <<>>
    /\ UNCHANGED <<cfg, filelist, localfs, hist>>

\* self.login(): raises when the login fails
Login ==
    /\ pc = "login"
    /\ \E k \in Answers({"ok"}, {"loginfail"}) :
         IF k = "ok" THEN pc' = "start" /\ UNCHANGED <<result, error>> ELSE Raise("LoginFailed")
    /\ UNCHANGED <<cfg, flags, progress, oracle, list_reqs, all_files, local_files, filelist,
                   pool, tasks, completed, localfs, hist>>

\* list_local_files(local_path): the files under local_path, in the order of
\* os.walk, each with its rel_path.
list_local_files(local_path) == local_path

\* if upload_only: the configuration checks and list_local_files
UploadList ==
    /\ pc = "start" /\ upload_only
    /\ \E k \in Answers({"ok"}, {"noconfig", "nodir"}) :
         LET found == list_local_files(upload_config.local_path)
         IN IF k = "noconfig" THEN Raise("UploadConfigMissing") /\ UNCHANGED local_files
            ELSE IF k = "nodir" THEN Raise("UploadDirNotFound") /\ UNCHANGED local_files
            ELSE IF found = <<>> THEN Return("returned") /\ UNCHANGED local_files
            ELSE pc' = "upool" /\ local_files' = found /\ UNCHANGED <<result, error>>
    /\ UNCHANGED <<cfg, flags, progress, oracle, list_reqs, all_files, filelist,
                   pool, tasks, completed, localfs, hist>>

\* raise FileNotFoundError("... filelist.json ...")
FilelistNotFound == "FilelistNotFound"

\* A run() that takes a missing manifest for an empty one.
LoadFilelistLenient ==
    /\ pc = "start" /\ ~upload_only /\ download_only
    /\ pc' = "check" /\ all_files' = load_filelist(filelist).files /\ UNCHANGED <<result, error>>
    /\ UNCHANGED <<cfg, flags, progress, oracle, list_reqs, local_files, filelist,
                   pool, tasks, completed, localfs, hist>>

\* A run() that looks at list_only after it has loaded the manifest.
LoadFilelistThenListOnly ==
    /\ pc = "start" /\ ~upload_only /\ download_only
    /\ LET loaded == load_filelist(filelist)
       IN IF loaded.none \/ loaded.files = <<>>
          THEN Raise(FilelistNotFound) /\ UNCHANGED all_files
          ELSE IF list_only
          THEN Return("returned") /\ all_files' = loaded.files
          ELSE pc' = "check" /\ all_files' = loaded.files /\ UNCHANGED <<result, error>>
    /\ UNCHANGED <<cfg, flags, progress, oracle, list_reqs, local_files, filelist,
                   pool, tasks, completed, localfs, hist>>

\* A run() that refuses only a manifest that does not exist.
LoadFilelistIfPresent ==
    /\ pc = "start" /\ ~upload_only /\ download_only
    /\ LET loaded == load_filelist(filelist)
       IN IF loaded.none
          THEN Raise(FilelistNotFound) /\ UNCHANGED all_files
          ELSE pc' = "check" /\ all_files' = loaded.files /\ UNCHANGED <<result, error>>
    /\ UNCHANGED <<cfg, flags, progress, oracle, list_reqs, local_files, filelist,
                   pool, tasks, completed, localfs, hist>>

\* all_files = self.load_filelist(); if not all_files: raise FileNotFoundError
LoadFilelist ==
    /\ pc = "start" /\ ~upload_only /\ download_only
    /\ LET loaded == load_filelist(filelist)
       IN IF loaded.none \/ loaded.files = <<>>
          THEN Raise(FilelistNotFound) /\ UNCHANGED all_files
          ELSE pc' = "check" /\ all_files' = loaded.files /\ UNCHANGED <<result, error>>
    /\ UNCHANGED <<cfg, flags, progress, oracle, list_reqs, local_files, filelist,
                   pool, tasks, completed, localfs, hist>>

\* The servers of a run: the one that answers every list request, and those
\* that fail one request of the fault-free walk.
Oracles ==
    LET walk == list_dir({}, remote_path).reqs
    IN {{}} \cup {{[path |-> walk[n].path, page |-> walk[n].page, kind |-> k]} :
                     n \in 1..Len(walk), k \in ListFaultKinds \cap net}

\* all_files = self.list_dir(self.remote_path)
RunListDir ==
    /\ pc = "start" /\ ~upload_only /\ ~download_only
    /\ \E orc \in Oracles :
         LET r == list_dir(orc, remote_path)
         IN /\ oracle' = orc
            /\ list_reqs' = r.reqs
            /\ IF r.raised
               THEN Raise("KeyError") /\ UNCHANGED all_files
               ELSE pc' = "save" /\ all_files' = r.files /\ UNCHANGED <<result, error>>
    /\ UNCHANGED <<cfg, flags, progress, local_files, filelist, pool, tasks, completed,
                   localfs, hist>>

\* A run() that does not look at list_only after it has saved the manifest.
SaveFilelistAndGoOn ==
    /\ pc = "save"
    /\ filelist' = save_filelist(all_files)
    /\ saved_files' = all_files
    /\ pc' = "check" /\ UNCHANGED <<result, error>>
    /\ UNCHANGED <<cfg, flags, progress, oracle, list_reqs, all_files, local_files,
                   pool, tasks, completed, localfs, prev_ok, prev_files>>

\* self.save_filelist(all_files); if list_only: return
SaveFilelist ==
    /\ pc = "save"
    /\ filelist' = save_filelist(all_files)
    /\ saved_files' = all_files
    /\ IF list_only THEN Return("returned") ELSE pc' = "check" /\ UNCHANGED <<result, error>>
    /\ UNCHANGED <<cfg, flags, progress, oracle, list_reqs, all_files, local_files,
                   pool, tasks, completed, localfs, prev_ok, prev_files>>

\* if not all_files: return
NoFiles ==
    /\ pc = "check" /\ all_files = <<>>
    /\ Return("returned")
    /\ UNCHANGED <<cfg, flags, progress, oracle, list_reqs, all_files, local_files, filelist,
                   pool, tasks, completed, localfs, hist>>

OpenPool(at, next) ==
    /\ pc = at
    /\ pool' = "open" /\ pc' = next
    /\ UNCHANGED <<cfg, flags, progress, result, error, oracle, list_reqs, all_files, local_files,
                   filelist, tasks, completed, localfs, hist>>

\* A run() that starts the transfers before it writes the manifest.
CreatePoolEarly == all_files # <<>> /\ OpenPool("save", "submit")

\* with ThreadPoolExecutor(max_workers=workers) as executor: (download)
CreatePool == all_files # <<>> /\ OpenPool("check", "submit")

\* with ThreadPoolExecutor(max_workers=workers) as executor: (upload)
CreateUploadPool == OpenPool("upool", "usubmit")

SubmitTask(at, total, task) ==
    /\ pc = at
    /\ Len(tasks) < total
    /\ tasks' = Append(tasks, task)
    /\ pc' = IF Len(tasks) + 1 = total THEN "wait" ELSE at
    /\ UNCHANGED <<cfg, flags, progress, result, error, oracle, list_reqs, all_files, local_files,
                   filelist, pool, completed, localfs, hist>>

\* futures.append(executor.submit(self.download_file, file_info["path"], local_file))
Submit ==
    SubmitTask("submit", Len(all_files),
               LET file_info == all_files[Len(tasks) + 1]
               IN NewTask("download", file_info.path, LocalFile(file_info.path)))

\* futures.append(executor.submit(self.upload_file, local_file, remote_file))
SubmitUpload ==
    SubmitTask("usubmit", Len(local_files),
               LET rel_path == local_files[Len(tasks) + 1]
               IN NewTask("upload",
                          RemoteTarget(upload_config.remote_upload_path, rel_path),
                          rel_path))

\* if completed % 20 == 0 or completed == total (% 10 in upload mode)
DownloadReportEvery == 20
UploadReportEvery == 10
ReportEvery == IF upload_only THEN UploadReportEvery ELSE DownloadReportEvery

\* A loop that forgets the line of the last item.
ProgressDueEvery(count, total, every) == count % every = 0

ProgressDue(count, total, every) == count % every = 0 \/ count = total

\* The futures as_completed has to yield: those done and not yet counted.
Finished == Cardinality({i \in 1..Len(tasks) : tasks[i].st = "done"})

Report(count) ==
    progress' = IF ProgressDue(count, Len(tasks), ReportEvery)
                THEN Append(progress, [completed |-> count, total |-> Len(tasks)])
                ELSE progress

\* An as_completed loop that asks each future for its result, and so raises
\* what a task raised.
AsCompletedResult ==
    /\ pc = "wait"
    /\ completed < Finished
    /\ IF \E i \in 1..Len(tasks) : tasks[i].st = "done" /\ tasks[i].outcome = "raised"
       THEN Raise("TaskRaised") /\ UNCHANGED <<completed, progress>>
       ELSE /\ completed' = completed + 1 /\ Report(completed + 1)
            /\ UNCHANGED <<pc, result, error>>
    /\ UNCHANGED <<cfg, flags, oracle, list_reqs, all_files, local_files,
                   filelist, pool, tasks, localfs, hist>>

\* for _ in as_completed(futures): completed += 1, and the progress line
AsCompleted ==
    /\ pc = "wait"
    /\ completed < Finished
    /\ completed' = completed + 1
    /\ Report(completed + 1)
    /\ UNCHANGED <<cfg, flags, pc, result, error, oracle, list_reqs, all_files, local_files,
                   filelist, pool, tasks, localfs, hist>>

\* The as_completed loop has yielded every future: the with block is left and
\* run() returns.
RunDone ==
    /\ pc = "wait"
    /\ completed = Len(tasks)
    /\ pool' = "closed"
    /\ Return("returned")
    /\ IF upload_only THEN UNCHANGED <<prev_ok, prev_files>>
       ELSE /\ prev_ok' = \A i \in 1..Len(tasks) : tasks[i].outcome = "ok"
            /\ prev_files' = all_files
    /\ UNCHANGED saved_files
    /\ UNCHANGED <<cfg, flags, progress, oracle, list_reqs, all_files, local_files,
                   filelist, tasks, completed, localfs>>

----------------------------------------------------------------------------
(* Specifications *)

AllFaults ==
    ListFaultKinds \cup StatFaults \cup GetFaults \cup XferFaults \cup MkdirFaults
    \cup PutFaults \cup {"mkfail", "writefail", "vanished", "loginfail", "noconfig", "nodir"}

\* The remote file system in which the directory at `path` holds `items`.
RECURSIVE Nest(_, _)
Nest(names, items) ==
    IF names = <<>> THEN items ELSE <<Dir(Head(names), Nest(Tail(names), items))>>

RemoteAt(path, items) == Nest(SplitPath(path, <<>>, <<>>), items)

\* The items of the directory a list request names
ItemsAt(path) == Resolve(remote, SplitPath(path, <<>>, <<>>)).items

RootPaths == {<<Slash>>, <<Slash, "r">>, <<Slash, "r", Slash>>}

\* The files below `items`, in the order of a depth-first walk, each with the
\* path that the names from `prefix` down to it spell.
RECURSIVE Leaves(_, _)
Leaves(items, prefix) ==
    IF items = <<>> THEN <<>>
    ELSE LET n == Head(items)
             p == prefix \o <<Slash>> \o n.name
         IN (IF n.is_dir THEN Leaves(n.children, p)
             ELSE <<[name |-> n.name, path |-> p, size |-> n.size]>>)
            \o Leaves(Tail(items), prefix)

InitRun ==
    /\ pc = "idle" /\ result = "none" /\ error = "none"
    /\ workers = 1 /\ list_only = FALSE /\ download_only = FALSE /\ upload_only = FALSE
    /\ oracle = {} /\ list_reqs = <<>>
    /\ all_files = <<>> /\ local_files = <<>>
    /\ pool = "none" /\ tasks = <<>> /\ completed = 0 /\ progress = <<>>
    /\ prev_ok = FALSE /\ prev_files = <<>>

Next ==
    \/ \E lo, do, uo \in BOOLEAN, w \in 1..MaxWorkers : StartRun(lo, do, uo, w)
    \/ Login
    \/ UploadList
    \/ LoadFilelist
    \/ RunListDir
    \/ SaveFilelist
    \/ NoFiles
    \/ CreatePool
    \/ CreateUploadPool
    \/ Submit
    \/ SubmitUpload
    \/ AsCompleted
    \/ RunDone
    \/ \E i \in 1..Len(tasks) : TaskStart(i)
    \/ \E i \in 1..Len(tasks) : Begin(i)
    \/ \E i \in 1..Len(tasks) : Stat(i)
    \/ \E i \in 1..Len(tasks) : Get(i)
    \/ \E i \in 1..Len(tasks) : Raw(i)
    \/ \E i \in 1..Len(tasks) : Stream(i)
    \/ \E i \in 1..Len(tasks) : Write(i)
    \/ \E i \in 1..Len(tasks) : UploadBegin(i)
    \/ \E i \in 1..Len(tasks) : Mkdir(i)
    \/ \E i \in 1..Len(tasks) : Put(i)

\* Runs that list or download
NextDownload ==
    \/ \E lo, do \in BOOLEAN, w \in 1..MaxWorkers : StartRun(lo, do, FALSE, w)
    \/ Login
    \/ LoadFilelist
    \/ RunListDir
    \/ SaveFilelist
    \/ NoFiles
    \/ CreatePool
    \/ Submit
    \/ AsCompleted
    \/ RunDone
    \/ \E i \in 1..Len(tasks) : TaskStart(i)
    \/ \E i \in 1..Len(tasks) : Begin(i)
    \/ \E i \in 1..Len(tasks) : Stat(i)
    \/ \E i \in 1..Len(tasks) : Get(i)
    \/ \E i \in 1..Len(tasks) : Raw(i)
    \/ \E i \in 1..Len(tasks) : Stream(i)
    \/ \E i \in 1..Len(tasks) : Write(i)

\* The thread of run() and the worker threads are scheduled fairly, and every
\* request of a task is answered or times out.  Nothing is assumed of how long
\* list_dir takes: its loop ends when the server makes it end.
ControlStep ==
    \/ Login \/ LoadFilelist \/ SaveFilelist \/ NoFiles \/ CreatePool
    \/ Submit \/ AsCompleted \/ RunDone

WorkerStep ==
    \E i \in 1..Len(tasks) :
        \/ TaskStart(i) \/ Begin(i) \/ Stat(i) \/ Get(i)
        \/ Raw(i) \/ Stream(i) \/ Write(i)

Fairness == WF_vars(ControlStep) /\ WF_vars(WorkerStep)

\* Runs that upload
NextUpload ==
    \/ \E w \in 1..MaxWorkers : StartRun(FALSE, FALSE, TRUE, w)
    \/ Login
    \/ UploadList
    \/ CreateUploadPool
    \/ SubmitUpload
    \/ AsCompleted
    \/ RunDone
    \/ \E i \in 1..Len(tasks) : TaskStart(i)
    \/ \E i \in 1..Len(tasks) : UploadBegin(i)
    \/ \E i \in 1..Len(tasks) : Mkdir(i)
    \/ \E i \in 1..Len(tasks) : Put(i)

\* Runs with one worker that list and download, or upload
NextBatch ==
    \/ \E uo \in BOOLEAN : StartRun(FALSE, FALSE, uo, 1)
    \/ Login
    \/ UploadList
    \/ RunListDir
    \/ SaveFilelist
    \/ NoFiles
    \/ CreatePool
    \/ CreateUploadPool
    \/ Submit
    \/ SubmitUpload
    \/ AsCompleted
    \/ RunDone
    \/ \E i \in 1..Len(tasks) : TaskStart(i)
    \/ \E i \in 1..Len(tasks) : Begin(i)
    \/ \E i \in 1..Len(tasks) : Stat(i)
    \/ \E i \in 1..Len(tasks) : Get(i)
    \/ \E i \in 1..Len(tasks) : Raw(i)
    \/ \E i \in 1..Len(tasks) : Stream(i)
    \/ \E i \in 1..Len(tasks) : Write(i)
    \/ \E i \in 1..Len(tasks) : UploadBegin(i)
    \/ \E i \in 1..Len(tasks) : Mkdir(i)
    \/ \E i \in 1..Len(tasks) : Put(i)

\* A list-only run
NextList ==
    \/ StartRun(TRUE, FALSE, FALSE, 1)
    \/ Login
    \/ RunListDir
    \/ SaveFilelist

\* The example of the specification: /r holds directory a with f1, and f2.
ExampleTree == <<Dir(<<"a">>, <<File(<<"f", "1">>, 10)>>), File(<<"f", "2">>, 20)>>

\* Two files, one of them empty and with a name JSON has to escape.
QuotedTree == <<File(<<Quote, Backslash>>, 0), File(<<"b">>, 10)>>

ThreeFiles == <<File(<<"a">>, 10), File(<<"b">>, 20), File(<<"c">>, 3)>>

\* Fault universes of one behaviour: each kind of fault is in one of them.
FewFaults == {"http", "mkfail", "loginfail", "nodir", "401"}
SomeFaults ==
    {{"http", "mkfail", "writefail", "loginfail", "nodir", "401", "timeout"},
     {"exc", "noraw", "openfail", "noconfig", "exists", "code_err", "nodata"},
     {"nonjson", "apperr", "emptyraw", "vanished", "other", "exception"}}

\* What may lie under local_save_dir before the first run: nothing, or a file
\* at the place of the first entry, of the remote size or of another size.
LocalStates(files) ==
    {<<>>} \cup
    (IF files = <<>> THEN {}
     ELSE {WriteFile(<<>>, LocalFile(files[1].path), sz, "old") :
              sz \in {files[1].size, files[1].size + 1}})

\* What an earlier run may have saved to filelist.json: the listing of the
\* tree, or (dup) a list that names the first entry twice.
SavedBefore(files, dup) ==
    {files} \cup (IF files = <<>> \/ ~dup THEN {} ELSE {<<files[1], files[1]>>})

InitEnv(trees, nets, pages, dup) ==
    /\ InitRun
    /\ remote_path = <<Slash, "r">>
    /\ \E t \in trees :
         /\ remote = RemoteAt(remote_path, t)
         /\ localfs \in LocalStates(Leaves(t, RStripSlash(remote_path)))
         /\ \/ filelist = Absent /\ saved_files = <<>>
            \/ \E files \in SavedBefore(Leaves(t, RStripSlash(remote_path)), dup) :
                  filelist = save_filelist(files) /\ saved_files = files
    /\ page_size \in pages
    /\ skip_existing \in BOOLEAN
    /\ net \in nets

\* config["upload"]
UploadConfig(local_path, remote_upload_path) ==
    [local_path |-> local_path, remote_upload_path |-> remote_upload_path]

NoUploads == UploadConfig(<<>>, <<Slash, "u">>)
OneUpload == UploadConfig(<<<<"a">>>>, <<Slash, "u">>)
TwoUploads == UploadConfig(<<<<"a">>, <<"s", Slash, "b">>>>, <<Slash, "u">>)

\* One call of run(), in an environment with two or three remote files and up
\* to two local files to upload.
Init ==
    /\ \/ InitEnv({ExampleTree}, SomeFaults, {MaxPageSize}, TRUE)
          /\ upload_config = TwoUploads
       \/ InitEnv({QuotedTree}, SomeFaults, {MaxPageSize}, TRUE)
          /\ upload_config = OneUpload
       \/ InitEnv({ThreeFiles}, {FewFaults}, {MaxPageSize}, FALSE)
          /\ upload_config = NoUploads
    /\ reruns = FALSE

Spec == Init /\ [][Next]_vars

\* list_dir on every tree of the bounds, under every root path and page size,
\* against a server that answers every request.
InitList ==
    /\ InitRun
    /\ remote_path \in RootPaths
    /\ remote \in {RemoteAt(remote_path, t) : t \in TreesOfDepth(MaxDepth)}
    /\ page_size \in 1..MaxPageSize
    /\ skip_existing = TRUE
    /\ net = {}
    /\ filelist = Absent /\ saved_files = <<>>
    /\ localfs = <<>>
    /\ upload_config = NoUploads
    /\ reruns = FALSE

SpecList == InitList /\ [][NextList]_vars

\* One remote file, every kind of fault, and run() called again and again.
OneFile == <<File(<<"a">>, 10)>>
EmptyFile == <<File(<<Quote, Backslash>>, 0)>>

InitRerun ==
    /\ InitEnv({OneFile, EmptyFile}, {AllFaults}, {MaxPageSize}, FALSE)
    /\ upload_config = NoUploads
    /\ reruns = TRUE

SpecRerun == InitRerun /\ [][NextDownload]_vars

\* Two local files in one directory, to upload under /u or under the root.
SameDir == <<<<"s", Slash, "a">>, <<"s", Slash, "b">>>>
UploadSites ==
    {TwoUploads, UploadConfig(SameDir, <<Slash, "u">>),
     UploadConfig(TwoUploads.local_path, <<Slash>>)}

\* The servers of an upload run: one that knows the directory of a second
\* mkdir, one that refuses, one that breaks.
UploadFaults ==
    {{"exists"},
     {"401", "http", "code_err", "loginfail", "nodir"},
     {"other", "nonjson", "exc", "vanished", "noconfig"}}

\* One upload run of two local files.
InitUpload ==
    /\ InitRun
    /\ remote_path = <<Slash, "r">>
    /\ remote = RemoteAt(remote_path, ExampleTree)
    /\ page_size = MaxPageSize
    /\ skip_existing = TRUE
    /\ upload_config \in UploadSites
    /\ net \in UploadFaults
    /\ filelist = Absent /\ saved_files = <<>>
    /\ localfs = <<>>
    /\ reruns = FALSE

SpecUpload == InitUpload /\ [][NextUpload]_vars

\* A batch of one entry more than two progress intervals, and no fault.
Numbered(n) == [i \in 1..n |-> <<"f">> \o EncodeInt(i)]
ManyFiles == [i \in 1..(2 * DownloadReportEvery + 1) |->
                File(Numbered(2 * DownloadReportEvery + 1)[i], i)]
ManyUploads == UploadConfig(Numbered(2 * UploadReportEvery + 1), <<Slash, "u">>)

\* A file in a directory and a file of the same name beside the directory.
SameNames == <<Dir(<<"a">>, <<File(<<"b">>, 10)>>), File(<<"b">>, 20)>>
BatchFaults == {"exc", "http", "mkfail", "401"}

\* One run over a long batch without faults, or over a short one with faults.
InitBatch ==
    /\ InitRun
    /\ remote_path = <<Slash, "r">>
    /\ page_size = MaxPageSize
    /\ \/ /\ remote = RemoteAt(remote_path, ManyFiles)
          /\ upload_config = ManyUploads
          /\ net = {}
          /\ skip_existing = FALSE
          /\ localfs = <<>>
       \/ /\ remote = RemoteAt(remote_path, SameNames)
          /\ upload_config = TwoUploads
          /\ net = BatchFaults
          /\ skip_existing = TRUE
          /\ localfs \in LocalStates(Leaves(SameNames, remote_path))
    /\ filelist = Absent /\ saved_files = <<>>
    /\ reruns = FALSE

SpecBatch == InitBatch /\ [][NextBatch]_vars

\* One download run over a tree in which a file of a subdirectory has the
\* name of a file of the root.
NameFaults == {"http", "mkfail", "writefail", "loginfail", "nodir"}

InitNames ==
    /\ InitEnv({SameNames}, {{}, NameFaults}, {MaxPageSize}, FALSE)
    /\ upload_config = NoUploads
    /\ reruns = FALSE

SpecNames == InitNames /\ [][NextDownload]_vars

\* run() called again and again, with no manifest at first, over a remote
\* directory that is empty, holds an empty directory, or holds one file.
NoItems == <<>>
EmptyDir == <<Dir(<<"a">>, <<>>)>>
EmptyFaults == {"http", "exc", "loginfail", "mkfail", "writefail"}

InitEmpty ==
    /\ InitEnv({NoItems, EmptyDir, OneFile}, {{}, EmptyFaults}, {MaxPageSize}, FALSE)
    /\ filelist = Absent
    /\ upload_config = NoUploads
    /\ reruns = TRUE

SpecEmpty == InitEmpty /\ [][NextDownload]_vars

\* One download run of the example tree under fair scheduling.
\* Exceptions in one behaviour, error statuses and broken copies in another.
FairFaults == {"mkfail", "exc", "loginfail"}
StatusFaults == {"http", "writefail"}

InitFair ==
    /\ \/ InitEnv({ExampleTree}, {FairFaults}, {MaxPageSize}, TRUE)
       \/ InitEnv({ExampleTree}, {StatusFaults}, {MaxPageSize}, FALSE)
    /\ upload_config = NoUploads
    /\ reruns = FALSE

FairSpec == InitFair /\ [][NextDownload]_vars /\ Fairness

----------------------------------------------------------------------------
(* Properties of list_dir *)

Range(q) == {q[i] : i \in 1..Len(q)}
Count(e, q) == Cardinality({i \in 1..Len(q) : q[i] = e})

\* "/" and a name, for each name
RECURSIVE JoinAbs(_)
JoinAbs(names) ==
    IF names = <<>> THEN <<>> ELSE <<Slash>> \o Head(names) \o JoinAbs(Tail(names))

\* The items of the directory remote_path names
RootItems == Resolve(remote, SplitPath(remote_path, <<>>, <<>>)).items

\* The files of the remote tree under remote_path
ExpectedFiles == Leaves(RootItems, JoinAbs(SplitPath(remote_path, <<>>, <<>>)))

ListDirReturned == list_reqs # <<>> /\ pc # "idle"

\* C1: when every list request is answered, list_dir(remote_path) returns the
\* files of the tree under remote_path and nothing else, each once, each with
\* the path that the root and the names of its ancestors and its own spell.
C1_ListDirComplete ==
    (ListDirReturned /\ oracle = {}) =>
        \A e \in Range(all_files) \cup Range(ExpectedFiles) :
            Count(e, all_files) = 1 /\ Count(e, ExpectedFiles) = 1

\* A listing of four files in two subdirectories, one item per page, from a
\* root path that ends with a slash.
C1_Witness ==
    /\ ListDirReturned /\ oracle = {}
    /\ page_size = 1 /\ remote_path = <<Slash, "r", Slash>>
    /\ Len(all_files) = 4

----------------------------------------------------------------------------
(* Properties of download_file *)

Downloads == {i \in 1..Len(tasks) : tasks[i].kind = "download"}

\* A download run that follows a download run which transferred every entry
\* of the same entry sequence, with skip_existing enabled.
SecondPass ==
    /\ pc \in {"submit", "wait"} /\ ~upload_only
    /\ skip_existing /\ prev_ok /\ all_files = prev_files

NothingFetched(t) == t.n_raw = 0 /\ t.n_stream = 0 /\ t.n_open = 0

\* C2 as claimed: in the second pass no entry, whatever its size, has its
\* raw_url fetched, the stream endpoint requested or its local file opened.
C2_AsClaimed == SecondPass => \A i \in Downloads : NothingFetched(tasks[i])

\* C2, amended: in the second pass an entry of size > 0 whose size query is
\* answered with its size has no raw_url fetch, no stream request and no
\* local file opened.
C2_SecondPassSkips ==
    SecondPass =>
        \A i \in Downloads :
            (all_files[i].size > 0 /\ tasks[i].stat_kind \in {"none", "ok"})
                => NothingFetched(tasks[i])

\* The second pass has skipped an entry of size > 0.
C2_Witness ==
    /\ SecondPass
    /\ \E i \in Downloads :
         all_files[i].size > 0 /\ tasks[i].outcome = "skipped" /\ tasks[i].stat_kind = "ok"

\* The skip check has found a local file of size > 0 and the size query was
\* answered with a size.
SizeCompared(t) ==
    skip_existing /\ t.pre.exists /\ t.pre.size > 0 /\ t.stat_kind = "ok"

\* C4: when the local file has size S > 0 and the size query reports S,
\* download_file returns Skipped with no get, raw_url or stream request and
\* the local file as it was; when the query reports another size,
\* download_file goes on to the get request.
C4_SkipIsNoOp ==
    \A i \in Downloads :
        LET t == tasks[i]
            S == RemoteFile(t.remote).node.size
        IN SizeCompared(t) =>
              IF t.pre.size = S
              THEN /\ t.outcome = "skipped"
                   /\ t.n_get = 0 /\ NothingFetched(t)
                   /\ FileAt(localfs, t.local) = t.pre
              ELSE /\ t.outcome # "skipped"
                   /\ t.step = "get" \/ t.n_get = 1

\* A file that lay under local_save_dir before the run has been skipped.
C4_Witness ==
    \E i \in Downloads :
        /\ SizeCompared(tasks[i])
        /\ tasks[i].outcome = "skipped" /\ tasks[i].pre.data = "old"

\* A file of another size has been sent on to the get request.
C4_Proceeds ==
    \E i \in Downloads :
        /\ SizeCompared(tasks[i])
        /\ tasks[i].pre.size # RemoteFile(tasks[i].remote).node.size
        /\ tasks[i].n_get = 1

FallbackKinds == {"http", "nonjson", "apperr", "noraw", "emptyraw"}

TransferEntered(t) == t.step = "get" \/ t.n_get = 1

\* C16: a size query that fails (exception, status, body that is not JSON,
\* application code, no data) never ends the download as Skipped or by
\* raising: the get request follows. Without skip_existing no size is asked
\* for and a download that got past os.makedirs goes on to the get request.
C16_SkipAdvisory ==
    \A i \in Downloads :
        LET t == tasks[i]
        IN /\ t.stat_kind \in StatFaults =>
                 /\ t.outcome \notin {"skipped", "raised"}
                 /\ TransferEntered(t)
           /\ ~skip_existing =>
                 /\ t.n_stat = 0 /\ t.outcome # "skipped"
                 /\ t.st = "queued" \/ t.step = "begin" \/ t.outcome = "raised"
                    \/ TransferEntered(t)

\* A size query has failed with an exception and the file has been
\* downloaded all the same.
C16_Witness ==
    \E i \in Downloads :
        /\ tasks[i].stat_kind = "exc" /\ tasks[i].pre.size > 0
        /\ tasks[i].n_get = 1 /\ tasks[i].outcome = "ok"

\* Without skip_existing a file that was there has been downloaded again.
C16_NoSkipCheck ==
    \E i \in Downloads :
        /\ ~skip_existing /\ tasks[i].pre.exists
        /\ tasks[i].n_stat = 0 /\ tasks[i].outcome = "ok"

----------------------------------------------------------------------------
(* Properties of the manifest *)

\* C9: in a run that reuses the manifest, the sequence load_filelist returns
\* is the sequence the last save_filelist was given, and the transfers
\* submitted are those of its entries, in order.
C9_RoundTrip ==
    (download_only /\ ~upload_only /\ pc \in {"check", "submit", "wait"}) =>
        /\ all_files = saved_files
        /\ \A i \in 1..Len(tasks) :
             /\ tasks[i].remote = saved_files[i].path
             /\ tasks[i].local = LocalFile(saved_files[i].path)

\* A reuse run has loaded a manifest that an earlier run of this behaviour
\* saved, with a name that JSON escapes, and has submitted its transfer.
C9_Witness ==
    /\ download_only /\ ~upload_only /\ pc = "wait"
    /\ list_reqs = <<>> /\ prev_files # <<>>
    /\ \E i \in 1..Len(all_files) : all_files[i].name = <<Quote, Backslash>>

----------------------------------------------------------------------------
(* Properties of run() *)

Fresh == ~upload_only /\ ~download_only

Failed(t) == t.outcome \in {"failed", "raised"}

RunReturned == pc = "idle" /\ result = "returned"

\* C3: when the transfer of an entry fails or raises, the run still ends by
\* returning, with a task for every entry and every task finished.
C3_FailureIsolation ==
    (\E i \in Downloads : Failed(tasks[i]))
        ~> (/\ RunReturned
            /\ Len(tasks) = Len(all_files)
            /\ \A j \in 1..Len(tasks) : tasks[j].st = "done" /\ tasks[j].n_exec = 1)

\* The first of two entries has raised in os.makedirs, the second has been
\* transferred, and the run has returned.
C3_Witness ==
    /\ RunReturned /\ Len(tasks) >= 2
    /\ tasks[1].outcome = "raised"
    /\ tasks[2].outcome = "ok"

\* C6: in fresh-download mode the manifest is written after list_dir has
\* returned and before the pool exists; the pool is created and the first
\* task submitted with the manifest written; and once a task exists neither a
\* list request is issued nor the manifest written.
C6_PhaseOrder ==
    [][(pc # "idle" /\ Fresh) =>
          /\ list_reqs' # list_reqs =>
                filelist' = filelist /\ pool = "none" /\ tasks = <<>>
          /\ filelist' # filelist =>
                /\ list_reqs # <<>> /\ list_reqs' = list_reqs
                /\ pool = "none" /\ pool' = "none" /\ tasks' = <<>>
          /\ pool' # pool /\ pool' = "open" =>
                filelist = save_filelist(all_files) /\ list_reqs' = list_reqs
          /\ tasks' # tasks =>
                pool = "open" /\ filelist = save_filelist(all_files)
          /\ tasks # <<>> => list_reqs' = list_reqs /\ filelist' = filelist]_vars

\* A fresh run is transferring: the listing is over, the manifest holds it.
C6_Witness ==
    /\ Fresh /\ pc = "wait" /\ list_reqs # <<>>
    /\ filelist = save_filelist(all_files)
    /\ \E i \in Downloads : tasks[i].step = "write"

\* C7: while the pool exists, the tasks that have started and not finished
\* are at most `workers`.
C7_BoundedConcurrency == pool = "open" => Cardinality(Running) <= workers

\* Two workers are busy and a third task waits for one of them.
C7_Witness ==
    /\ pool = "open" /\ workers = 2 /\ Cardinality(Running) = 2
    /\ \E i \in 1..Len(tasks) : tasks[i].st = "queued"

\* C8: a download run that starts to submit ends with one task per entry of
\* the sequence, in order, each executed once, and `completed` equal to N.
C8_Dispatch ==
    (pc = "submit" /\ ~upload_only)
        ~> (/\ RunReturned
            /\ completed = Len(all_files)
            /\ Len(tasks) = Len(all_files)
            /\ \A i \in 1..Len(tasks) :
                 /\ tasks[i].remote = all_files[i].path
                 /\ tasks[i].st = "done" /\ tasks[i].n_exec = 1)

\* A run over a sequence that names one entry twice has ended, both tasks
\* counted, one Skipped or Succeeded and one Failed.
C8_Witness ==
    /\ RunReturned /\ completed = 2 /\ Len(all_files) = 2
    /\ all_files[1] = all_files[2]
    /\ tasks[1].outcome # tasks[2].outcome
    /\ \E i \in 1..2 : tasks[i].outcome = "failed"

\* C10: a list-only run creates no pool and no task (so no get, raw_url,
\* stream, mkdir or put request), and when it returns the manifest holds what
\* list_dir returned.
C10_ListOnly ==
    (list_only /\ Fresh) =>
        /\ pool = "none" /\ tasks = <<>>
        /\ RunReturned => filelist = save_filelist(all_files) /\ list_reqs # <<>>

\* A list-only run has returned with a manifest of two entries.
C10_Witness ==
    /\ list_only /\ Fresh /\ RunReturned
    /\ Len(all_files) = 2 /\ filelist = save_filelist(all_files)

\* C11: a run with download_only (and not upload_only) issues no list request
\* and leaves the manifest as it is; without a manifest it creates no pool and
\* no task and ends by raising; with one, it ends its pool with one task per
\* entry of the manifest, in order.
C11_ManifestReuse ==
    [][(pc # "idle" /\ download_only /\ ~upload_only) =>
          /\ list_reqs' = <<>> /\ filelist' = filelist
          /\ ~filelist.exists =>
                /\ pool' = "none" /\ tasks' = <<>>
                /\ pc' = "idle" => result' = "raised"
          /\ (filelist.exists /\ pool' = "closed") =>
                LET files == load_filelist(filelist).files
                IN /\ Len(tasks') = Len(files)
                   /\ \A i \in 1..Len(files) : tasks'[i].remote = files[i].path]_vars

\* A run with download_only has returned after a task for each of the two
\* entries of the manifest.
C11_Witness ==
    /\ download_only /\ ~upload_only /\ RunReturned
    /\ filelist.exists /\ list_reqs = <<>>
    /\ Len(tasks) = 2 /\ Len(load_filelist(filelist).files) = 2

\* A run with download_only and no manifest has raised.
C11_Aborted ==
    /\ download_only /\ ~upload_only /\ pc = "idle" /\ result = "raised"
    /\ ~filelist.exists

----------------------------------------------------------------------------
(* Properties of upload_file *)

Uploads == {i \in 1..Len(tasks) : tasks[i].kind = "upload"}

\* C12 as claimed: an upload whose mkdir call was answered with 401 does not
\* end with upload_file returning True.
C12_AsClaimed ==
    \A i \in Uploads :
        (tasks[i].mkdir_kind = "401" /\ tasks[i].st = "done")
            => tasks[i].outcome = "false"

\* What holds of a 401 from mkdir: the PUT is still sent, the upload ends as
\* the PUT is answered, and the run goes on.
C12_PutDecides ==
    \A i \in Uploads :
        (tasks[i].mkdir_kind = "401" /\ tasks[i].st = "done")
            => /\ tasks[i].n_put = 1
               /\ tasks[i].outcome = "true" <=> PutSucceeds(tasks[i].put_kind)
               /\ result # "raised"

\* upload_file has come to its PUT request.
AtPut(t) == t.step = "put" \/ t.n_put = 1

\* C18 as claimed: every upload has issued a mkdir call, and had its answer,
\* when it comes to its PUT.
C18_AsClaimed ==
    \A i \in Uploads : AtPut(tasks[i]) => tasks[i].n_mkdir = 1

\* C18, amended: an upload whose target has a parent directory path (it does
\* not lie directly under "/") issues one mkdir call of its own and comes to
\* its PUT only after the answer; an upload whose mkdir was answered with
\* success or "already exists" sends its PUT and ends as the PUT is answered;
\* an upload directly under "/" issues no mkdir call.
C18_MkdirBeforePut ==
    \A i \in Uploads :
        LET t == tasks[i]
        IN /\ t.n_mkdir <= 1 /\ t.n_put <= 1
           /\ AtPut(t) => (t.n_mkdir = 1 <=> DirPath(t.remote) # <<>>)
           /\ (t.mkdir_kind \in {"ok", "exists"} /\ t.st = "done") =>
                 /\ t.n_put = 1
                 /\ t.outcome = "true" <=> PutSucceeds(t.put_kind)

\* Two uploads into the same directory are at their PUT at the same time,
\* one after a mkdir that made the directory, one after "already exists".
C18_Witness ==
    /\ Len(tasks) = 2
    /\ DirPath(tasks[1].remote) = DirPath(tasks[2].remote)
    /\ \A i \in 1..2 : tasks[i].st = "running" /\ tasks[i].step = "put"
    /\ {tasks[1].mkdir_kind, tasks[2].mkdir_kind} = {"ok", "exists"}

\* Both of these uploads have been accepted.
C18_BothUploaded ==
    /\ Len(tasks) = 2
    /\ DirPath(tasks[1].remote) = DirPath(tasks[2].remote)
    /\ {tasks[1].mkdir_kind, tasks[2].mkdir_kind} = {"ok", "exists"}
    /\ \A i \in 1..2 : tasks[i].outcome = "true"

----------------------------------------------------------------------------
(* Order and number of the list requests *)

\* The page on which the m-th item of a directory is delivered
PageOf(m) == ((m - 1) \div page_size) + 1

\* The requests for a subdirectory come after the request for the page that
\* shows it and before the request for the next page of its parent.
SubdirsBetweenPages ==
    \A j \in 1..Len(list_reqs) :
        LET P == list_reqs[j].path
            q == list_reqs[j].page
            items == ItemsAt(P)
        IN \A m \in 1..Len(items) :
              items[m].is_dir =>
                 \A k \in 1..Len(list_reqs) :
                    list_reqs[k].path = FullPath(P, items[m].name) =>
                       IF PageOf(m) < q THEN k < j ELSE k > j

\* C13: with every request answered, list_dir returns the files in pre-order:
\* the items of a directory in the order of its pages, what a subdirectory
\* holds in the place of the subdirectory; and a subdirectory is listed
\* before the next page of its parent is requested.
C13_PreOrder ==
    (ListDirReturned /\ oracle = {}) =>
        all_files = ExpectedFiles /\ SubdirsBetweenPages

\* One item per page: a directory of two files, then a file. The listing is
\* the two files of the directory, then the file.
C13_Witness ==
    /\ ListDirReturned /\ oracle = {} /\ page_size = 1
    /\ Len(RootItems) = 2 /\ RootItems[1].is_dir /\ ~RootItems[2].is_dir
    /\ Len(all_files) = 3
    /\ all_files[3].name = RootItems[2].name

\* The pages requested of directory `path`, in the order of the requests
PagesOf(path) ==
    LET of_path(r) == r.path = path
        reqs == SelectSeq(list_reqs, of_path)
    IN [i \in 1..Len(reqs) |-> reqs[i].page]

\* C15: with every request answered, the pages requested of a directory of n
\* items are 1, 2, ..., n div page_size + 1, in this order, each once: the
\* last one is the first page with fewer than page_size items.
C15_Pagination ==
    (ListDirReturned /\ oracle = {}) =>
        \A j \in 1..Len(list_reqs) :
            LET pages == PagesOf(list_reqs[j].path)
                n == Len(ItemsAt(list_reqs[j].path))
            IN /\ Len(pages) = (n \div page_size) + 1
               /\ \A i \in 1..Len(pages) : pages[i] = i

\* A directory of two items listed by pages of two: the full page, then the
\* empty one.
C15_Witness ==
    /\ ListDirReturned /\ oracle = {} /\ page_size = 2
    /\ Len(RootItems) = 2
    /\ PagesOf(remote_path) = <<1, 2>>

----------------------------------------------------------------------------
(* Failed list requests *)

\* The files of `items` from the i-th on, in pre-order, without what lies
\* behind a failed request: of a directory whose page q fails, the items of
\* pages q, q + 1, ... and what they hold are left out.
RECURSIVE LeavesCut(_, _, _, _)
LeavesCut(items, i, path, cut) ==
    LET failed == {f \in cut : f.path = path}
        kept == IF failed = {} THEN Len(items)
                ELSE Min(Len(items), ((CHOOSE f \in failed : TRUE).page - 1) * page_size)
    IN IF i > kept THEN <<>>
       ELSE LET n == items[i]
                p == FullPath(path, n.name)
            IN (IF n.is_dir THEN LeavesCut(n.children, 1, p, cut)
                ELSE <<[name |-> n.name, path |-> p, size |-> n.size]>>)
               \o LeavesCut(items, i + 1, path, cut)

ListDirCalled == Fresh /\ list_reqs # <<>>

Contained ==
    /\ result # "raised"
    /\ all_files = LeavesCut(RootItems, 1, remote_path, oracle)

\* C14 as claimed: whatever the failure of a list request, one without the
\* data or content field included, list_dir raises nothing and returns what
\* lies before the failed page, and the listing of the parent goes on.
C14_AsClaimed == ListDirCalled => Contained

\* What holds: the same, for the failures that list_dir looks for (timeout,
\* exception, status, body that is not JSON, application code).
C14_Containment ==
    (ListDirCalled /\ \A f \in oracle : f.kind # "nodata") => Contained

\* The request for directory a has failed and the file behind a is listed.
C14_Contained ==
    /\ ListDirCalled /\ oracle # {} /\ pc = "save"
    /\ \E f \in oracle : f.path # remote_path /\ f.kind = "timeout"
    /\ Len(all_files) = 1

----------------------------------------------------------------------------
(* Progress lines *)

\* The lines "c/N" the claim has printed once `completed` futures are counted
ExpectedProgress ==
    LET N == Len(tasks)
        due(c) == c % (IF upload_only THEN 10 ELSE 20) = 0 \/ c = N
        lines == SelectSeq([c \in 1..completed |-> c], due)
    IN [i \in 1..Len(lines) |-> [completed |-> lines[i], total |-> N]]

\* C17: in a run the counter grows by one at a time and never beyond the
\* tasks that have finished; the progress lines printed are those of the
\* counts c with c mod 20 = 0 (mod 10 in upload mode) or c = N, in increasing
\* order; and the pool is left with the counter at N and "N/N" printed last.
C17_Progress ==
    [][pc # "idle" =>
          /\ completed' \in {completed, completed + 1}
          /\ completed' <= Finished'
          /\ progress' = ExpectedProgress'
          /\ pool' = "closed" =>
                /\ completed' = Len(tasks')
                /\ progress'[Len(progress')] =
                      [completed |-> Len(tasks'), total |-> Len(tasks')]]_vars

\* A download run over 41 entries has printed 20/41, 40/41 and 41/41.
C17_Witness ==
    /\ ~upload_only /\ RunReturned
    /\ progress = <<[completed |-> 20, total |-> 41], [completed |-> 40, total |-> 41],
                    [completed |-> 41, total |-> 41]>>

\* An upload run over 21 files has printed 10/21, 20/21 and 21/21.
C17_UploadLines ==
    /\ upload_only /\ RunReturned
    /\ progress = <<[completed |-> 10, total |-> 21], [completed |-> 20, total |-> 21],
                    [completed |-> 21, total |-> 21]>>

\* A run of two downloads, one Failed and one raised, has printed 2/2.
C17_FailedCounted ==
    /\ ~upload_only /\ RunReturned
    /\ \E i, j \in Downloads : tasks[i].outcome = "failed" /\ tasks[j].outcome = "raised"
    /\ progress = <<[completed |-> 2, total |-> 2]>>

----------------------------------------------------------------------------
(* C19: in the transfer phase of a download run, the tasks of two entries
   have different local paths, and no two tasks that are executing have the
   same local file open for writing. *)

\* Task i has opened its local file "wb" and has not closed it yet.
OpenForWriting(i) == tasks[i].st = "running" /\ tasks[i].step = "write"

C19_NoContention ==
    ~upload_only =>
        \A i, j \in Downloads :
            i # j =>
                /\ tasks[i].remote # tasks[j].remote
                /\ tasks[i].local # tasks[j].local
                /\ ~(OpenForWriting(i) /\ OpenForWriting(j)
                      /\ tasks[i].local = tasks[j].local)

\* Two workers have their files open at the same time: /r/a/b and /r/b.
C19_Witness ==
    /\ ~upload_only
    /\ \E i, j \in Downloads :
          /\ i # j
          /\ OpenForWriting(i) /\ OpenForWriting(j)
          /\ tasks[i].local = LocalFile(<<Slash, "r", Slash, "a", Slash, "b">>)
          /\ tasks[j].local = LocalFile(<<Slash, "r", Slash, "b">>)

\* The same, in a run that took its entries from the manifest.
C19_FromManifest == C19_Witness /\ download_only

----------------------------------------------------------------------------
(* C20: once /api/fs/get has returned a non-empty raw_url, the stream
   endpoint is never requested for that entry; when the GET of the raw_url
   answers with a status other than 200 the item fails and its local file is
   neither created nor truncated; and when the request to /api/fs/get raises,
   the item fails without a stream request. *)

C20_GetRaised ==
    \E i \in Downloads :
        /\ tasks[i].get_kind = "exc" /\ tasks[i].n_get = 1
        /\ tasks[i].outcome = "failed" /\ tasks[i].n_stream = 0

\* The file is missing, and is not created by the failed fetch.
C20_NotCreated ==
    \E i \in Downloads :
        /\ tasks[i].get_kind = "url" /\ tasks[i].xfer_kind = "http"
        /\ tasks[i].outcome = "failed"
        /\ ~tasks[i].pre.exists
        /\ ~FileAt(localfs, tasks[i].local).exists

----------------------------------------------------------------------------
(* C21: a run that lists (neither download_only nor upload_only) and whose
   listing yields no entry writes an empty manifest, creates no pool and
   returns without an error; a later run with download_only that loads the
   empty manifest raises the error of a missing manifest, with no pool and no
   task. *)

\* The manifest is the one a save_filelist of this behaviour wrote for no entry.
EmptyManifest == filelist = save_filelist(<<>>) /\ saved_files = <<>>

C21_EmptyListing ==
    [][ /\ (Fresh /\ pc = "save" /\ all_files = <<>>) =>
             /\ filelist' = save_filelist(<<>>)
             /\ pool' = "none" /\ tasks' = <<>>
             /\ pc' \in {"check", "idle"}
             /\ pc' = "idle" => result' = "returned" /\ error' = "none"
        /\ (Fresh /\ pc = "check" /\ all_files = <<>>) =>
             /\ filelist' = filelist
             /\ pool' = "none" /\ tasks' = <<>>
             /\ pc' = "idle" /\ result' = "returned" /\ error' = "none"
        /\ (pc = "start" /\ download_only /\ ~upload_only) =>
             /\ ~filelist.exists => result' = "raised" /\ error' = FilelistNotFound
             /\ EmptyManifest =>
                   /\ pc' = "idle" /\ result' = "raised" /\ error' = FilelistNotFound
                   /\ pool' = "none" /\ tasks' = <<>>
                   /\ filelist' = filelist ]_vars

\* A run with download_only has raised over the empty manifest that an
\* earlier run wrote for an empty directory.
C21_Witness ==
    /\ download_only /\ ~upload_only
    /\ pc = "idle" /\ result = "raised" /\ error = FilelistNotFound
    /\ EmptyManifest
    /\ remote = RemoteAt(remote_path, NoItems)
    /\ pool = "none" /\ tasks = <<>>

\* A listing run without list_only has returned over no entry.
C21_Returned ==
    /\ Fresh /\ ~list_only /\ RunReturned /\ error = "none"
    /\ list_reqs # <<>> /\ all_files = <<>>
    /\ EmptyManifest /\ pool = "none" /\ tasks = <<>>

\* The same over a directory that holds one empty directory.
C21_EmptySubdir == C21_Returned /\ remote = RemoteAt(remote_path, EmptyDir)

\* The same over a directory whose listing failed.
C21_ListingFailed == C21_Returned /\ remote = RemoteAt(remote_path, OneFile)

----------------------------------------------------------------------------
(* C22: run() looks at upload_only first, then at download_only, then at
   list_only. With upload_only there is no list request, no read or write of
   the manifest and no download task, whatever the other flags are; with
   download_only and not upload_only the entries of the manifest are
   downloaded whether list_only is set or not; and with list_only alone the
   run ends without a pool or a task. *)

C22_FlagPrecedence ==
    [][ /\ (pc # "idle" /\ upload_only) =>
             /\ list_reqs' = <<>> /\ all_files' = <<>>
             /\ filelist' = filelist /\ localfs' = localfs
             /\ \A i \in 1..Len(tasks') : tasks'[i].kind = "upload"
             /\ (pool' = "closed") =>
                   Len(tasks') = Len(list_local_files(upload_config.local_path))
        /\ (pc # "idle" /\ ~upload_only /\ download_only) =>
             /\ list_reqs' = <<>> /\ filelist' = filelist
             /\ \A i \in 1..Len(tasks') : tasks'[i].kind = "download"
             /\ LET files == load_filelist(filelist).files
                IN /\ (files # <<>> /\ pc' = "idle" /\ result' = "returned") => pool' = "closed"
                   /\ (pool' = "closed") =>
                         /\ Len(tasks') = Len(files)
                         /\ \A i \in 1..Len(files) : tasks'[i].remote = files[i].path
        /\ (pc # "idle" /\ ~upload_only /\ ~download_only /\ list_only) =>
             pool' = "none" /\ tasks' = <<>> ]_vars

\* A run with download_only and list_only has downloaded the two entries of
\* the manifest.
C22_Witness ==
    /\ download_only /\ list_only /\ ~upload_only /\ RunReturned
    /\ pool = "closed" /\ list_reqs = <<>>
    /\ Len(tasks) = 2 /\ Len(load_filelist(filelist).files) = 2
    /\ \A i \in 1..2 : tasks[i].kind = "download" /\ tasks[i].outcome = "ok"

\* A run with all three flags has uploaded its two files and nothing else.
C22_UploadFirst ==
    /\ upload_only /\ download_only /\ list_only /\ RunReturned
    /\ pool = "closed" /\ list_reqs = <<>> /\ all_files = <<>>
    /\ Len(tasks) = 2
    /\ \A i \in 1..2 : tasks[i].kind = "upload" /\ tasks[i].outcome = "true"

\* A run with upload_only and list_only, without a manifest, has uploaded.
C22_UploadNotListed ==
    /\ upload_only /\ ~download_only /\ list_only /\ RunReturned
    /\ pool = "closed" /\ ~filelist.exists /\ Len(tasks) > 0

\* A run with list_only alone has stopped after it saved three entries.
C22_ListOnlyStops ==
    /\ list_only /\ Fresh /\ RunReturned
    /\ pool = "none" /\ tasks = <<>>
    /\ Len(all_files) = 3 /\ filelist = save_filelist(all_files)

====
